---- MODULE Spec2Model ----
(***************************************************************************)
(* The annotated control pipeline (just_render / custom_render) and the    *)
(* page block builder (try_build_block) of src/src/ansi_colours.rs.        *)
(*                                                                         *)
(* A client either calls try_build_block on a Vec<Control> of its own, or  *)
(* calls just_render on the rich lines of a document and hands the         *)
(* returned Vec<Control> to try_build_block.                               *)
(*                                                                         *)
(* The size estimates and the table layout (RenderTable, render_table_tree)*)
(* of src/src/lib.rs are the second part of the module.                    *)
(***************************************************************************)
EXTENDS Integers, Sequences, FiniteSets, TLC

\* ---- bounds of the model ----
MaxControls == 4   \* longest Vec<Control> a client passes to try_build_block
MaxLines == 2      \* lines of the rendered document
MaxSpans == 2      \* tagged strings of one line
MaxAnns == 4       \* annotations of all the lines together
MaxTags == 2       \* annotations of one tagged string
MaxRows == 2       \* rows of a table
MaxCells == 2      \* cells of a table row
MaxColspan == 2    \* largest colspan of a cell
MaxWidth == 6      \* largest width of the renderer a table is rendered in
MaxRenders == 2    \* renders of the same tree
MaxAttrLen == 2    \* characters of the value of a colspan attribute
MaxDepth == 3      \* nested block quotes and lists
MaxDomDepth == 3   \* elements nested in the document
MaxChildren == 1   \* children of a node of the document

\* ---- values ----
Ids == {"A", "B"}              \* the Uuids of the redacted sections
NoId == ""                     \* the id field of a variant that has no id
Texts == {<<>>, <<"a">>}       \* ts.s: empty or not

\* enum Control; the fields a variant does not have are 0 / <<>>
Ctl(k, s, id, w, h) == [k |-> k, s |-> s, id |-> id, w |-> w, h |-> h]
CDefault == Ctl("Default", <<>>, NoId, 0, 0)
CRedactedBegin(id) == Ctl("RedactedBegin", <<>>, id, 0, 0)
CRedactedEnd(id) == Ctl("RedactedEnd", <<>>, id, 0, 0)
CStr(s) == Ctl("Str", s, NoId, 0, 0)
CNoBreakBegin == Ctl("NoBreakBegin", <<>>, NoId, 0, 0)
CNoBreakEnd == Ctl("NoBreakEnd", <<>>, NoId, 0, 0)
CImage(w, h) == Ctl("Image", <<>>, NoId, w, h)
CBell(s) == Ctl("Bell", s, NoId, 0, 0)
CLF == Ctl("LF", <<>>, NoId, 0, 0)
CStrRedacted(s, id) == Ctl("StrRedacted", s, id, 0, 0)
CAudio(s) == Ctl("Audio", s, NoId, 0, 0)

\* the Controls a client may put in the vector it passes to try_build_block
ControlInputs ==
  {CDefault, CRedactedBegin("A"), CRedactedEnd("A"), CStr(<<"a">>), CNoBreakBegin,
   CNoBreakEnd, CImage(1, 2), CImage(2, 1), CBell(<<"a">>), CLF,
   CStrRedacted(<<"a">>, "A"), CAudio(<<"v">>)}

\* struct PageBlock and its Default
PageBlock(inner, height) == [inner |-> inner, height |-> height]

\* PageBlockDefault of height 1
PageBlockDefault_HeightOne == PageBlock(<<>>, 1)

\* PageBlock::default()
PageBlockDefault == PageBlock(<<>>, 0)

VARIABLES
  entry,           \* the function the client called first
  pc,              \* position in the running function
  fatal,           \* message of the panic that ended the run, "" if none
  controls,        \* try_build_block: the part of `controls` iterated so far
  blocks,          \* try_build_block: blocks
  block,           \* try_build_block: block
  no_break,        \* try_build_block: no_break
  cmds,            \* just_render: cmds
  redacted_stack,  \* just_render: redacted_stack
  is_marker,       \* just_render: is_marker
  nlines,          \* just_render: lines taken from `lines` so far
  line,            \* just_render: tagged strings taken from the line so far
  ai,              \* just_render: annotations of the current ts scanned so far
  nanns,           \* annotations of the tagged strings taken so far
  table,           \* the RenderTable, with its caches
  ret,             \* what the last RenderTable::get_size_estimate returned
  width,           \* render_table_tree: width (builder.width())
  col_sizes,       \* render_table_tree: col_sizes
  col_widths,      \* render_table_tree: col_widths
  picked,          \* render_table_tree: i of the last turn of the while loop
  rendered,        \* render_table_tree: rendered_cells of every row
  nrenders,        \* renders of the tree finished so far
  handle,          \* td_to_render_tree: the colspan attribute of the element
  td_cell,         \* td_to_render_tree: the RenderTableCell returned
  builders,        \* render_tree_to_string: the renderers of the calls in progress
  document,        \* from_read: dom.document
  render_tree,     \* from_read: what dom_to_render_tree returned
  output           \* from_read: the calls render_tree_to_string made on the builder

tvars == <<table, ret, width, col_sizes, col_widths, picked, rendered, nrenders>>

dvars == <<handle, td_cell, builders>>

mvars == <<document, render_tree, output>>

vars == <<entry, pc, fatal, controls, blocks, block, no_break, cmds,
          redacted_stack, is_marker, nlines, line, ai, nanns, tvars, dvars, mvars>>

bvars == <<controls, blocks, block, no_break>>
rvars == <<cmds, redacted_stack, is_marker, nlines, line, ai, nanns>>

Last(s) == s[Len(s)]
Front(s) == SubSeq(s, 1, Len(s) - 1)

\* ------------------------------------------------------------------------
\* try_build_block
\* ------------------------------------------------------------------------

\* `for c in controls`: the Controls the loop can take next
NextControls ==
  IF entry = "try_build_block"
    THEN IF Len(controls) < MaxControls THEN ControlInputs ELSE {}
    ELSE IF Len(controls) < Len(cmds) THEN {cmds[Len(controls) + 1]} ELSE {}

\* Control::Default | RedactedBegin | RedactedEnd => unreachable!()
BuildUnreachable ==
  /\ pc = "build"
  /\ \E c \in NextControls :
       /\ c.k \in {"Default", "RedactedBegin", "RedactedEnd"}
       /\ controls' = Append(controls, c)
  /\ pc' = "panic"
  /\ fatal' = "unreachable"
  /\ UNCHANGED <<entry, blocks, block, no_break>>
  /\ UNCHANGED rvars
  /\ UNCHANGED tvars
  /\ UNCHANGED dvars
  /\ UNCHANGED mvars

\* LFBlock without `block.height += 1`
LFBlock_NoHeight(b) == PageBlock(Append(b.inner, CLF), b.height)

\* the block after Control::LF was pushed on it
LFBlock(b) == PageBlock(Append(b.inner, CLF), b.height + 1)

\* Control::LF
BuildLF ==
  /\ pc = "build"
  /\ \E c \in NextControls :
       /\ c.k = "LF"
       /\ controls' = Append(controls, c)
  /\ IF ~no_break
       THEN /\ blocks' = Append(blocks, LFBlock(block))
            /\ block' = PageBlockDefault
       ELSE /\ block' = LFBlock(block)
            /\ blocks' = blocks
  /\ UNCHANGED <<entry, pc, fatal, no_break>>
  /\ UNCHANGED rvars
  /\ UNCHANGED tvars
  /\ UNCHANGED dvars
  /\ UNCHANGED mvars

\* FlushPending without the is_empty test
FlushPending_Always(bs, b) == Append(bs, b)

\* if !block.inner.is_empty() { blocks.push(block); ... }
FlushPending(bs, b) == IF b.inner # <<>> THEN Append(bs, b) ELSE bs

\* Control::NoBreakBegin
BuildNoBreakBegin ==
  /\ pc = "build"
  /\ \E c \in NextControls :
       /\ c.k = "NoBreakBegin"
       /\ controls' = Append(controls, c)
  /\ IF no_break
       THEN /\ pc' = "panic"
            /\ fatal' = "Section nested"
            /\ UNCHANGED <<blocks, block, no_break>>
       ELSE /\ no_break' = TRUE
            /\ blocks' = FlushPending(blocks, block)
            /\ block' = IF block.inner # <<>> THEN PageBlockDefault ELSE block
            /\ UNCHANGED <<pc, fatal>>
  /\ UNCHANGED entry
  /\ UNCHANGED rvars
  /\ UNCHANGED tvars
  /\ UNCHANGED dvars
  /\ UNCHANGED mvars

\* FlushAlways with the is_empty test of the other arms
FlushAlways_NonEmpty(bs, b) == IF b.inner # <<>> THEN Append(bs, b) ELSE bs

\* blocks.push(block) of Control::NoBreakEnd
FlushAlways(bs, b) == Append(bs, b)

\* Control::NoBreakEnd
BuildNoBreakEnd ==
  /\ pc = "build"
  /\ \E c \in NextControls :
       /\ c.k = "NoBreakEnd"
       /\ controls' = Append(controls, c)
  /\ IF ~no_break
       THEN /\ pc' = "panic"
            /\ fatal' = "Section mismatched"
            /\ UNCHANGED <<blocks, block, no_break>>
       ELSE /\ no_break' = FALSE
            /\ blocks' = FlushAlways(blocks, block)
            /\ block' = PageBlockDefault
            /\ UNCHANGED <<pc, fatal>>
  /\ UNCHANGED entry
  /\ UNCHANGED rvars
  /\ UNCHANGED tvars
  /\ UNCHANGED dvars
  /\ UNCHANGED mvars

\* ImageBlocks with `block.height += *w`
ImageBlocks_Width(bs, b, c) ==
  LET flushed == IF b.inner # <<>> THEN Append(bs, b) ELSE bs
  IN Append(flushed, PageBlock(<<c>>, c.w))

\* the blocks after Control::Image(src, w, h) met the pending block b
ImageBlocks(bs, b, c) ==
  LET flushed == FlushPending(bs, b)
      fresh == IF b.inner # <<>> THEN PageBlockDefault ELSE b
  IN Append(flushed, PageBlock(Append(fresh.inner, c), fresh.height + c.h))

\* Control::Image(src, w, h)
BuildImage ==
  /\ pc = "build"
  /\ \E c \in NextControls :
       /\ c.k = "Image"
       /\ controls' = Append(controls, c)
       /\ blocks' = ImageBlocks(blocks, block, c)
  /\ block' = PageBlockDefault
  /\ UNCHANGED <<entry, pc, fatal, no_break>>
  /\ UNCHANGED rvars
  /\ UNCHANGED tvars
  /\ UNCHANGED dvars
  /\ UNCHANGED mvars

\* x => block.inner.push(x.clone()): Str, StrRedacted, Bell, Audio
BuildOther ==
  /\ pc = "build"
  /\ \E c \in NextControls :
       /\ c.k \in {"Str", "StrRedacted", "Bell", "Audio"}
       /\ controls' = Append(controls, c)
       /\ block' = PageBlock(Append(block.inner, c), block.height)
  /\ UNCHANGED <<entry, pc, fatal, blocks, no_break>>
  /\ UNCHANGED rvars
  /\ UNCHANGED tvars
  /\ UNCHANGED dvars
  /\ UNCHANGED mvars

\* the loop is over: `blocks` is returned
BuildReturn ==
  /\ pc = "build"
  /\ \/ entry = "try_build_block"
     \/ Len(controls) = Len(cmds)
  /\ pc' = "done"
  /\ UNCHANGED <<entry, fatal>>
  /\ UNCHANGED bvars
  /\ UNCHANGED rvars
  /\ UNCHANGED tvars
  /\ UNCHANGED dvars
  /\ UNCHANGED mvars

\* ------------------------------------------------------------------------
\* just_render / custom_render (the two loops are the same code)
\* ------------------------------------------------------------------------

\* enum RichAnnotation; the fields a variant does not have are 0 / "" / <<>>
Ann(k, id, w, h, typ, value) ==
  [k |-> k, id |-> id, w |-> w, h |-> h, typ |-> typ, value |-> value]
ANoBreakBegin == Ann("NoBreakBegin", NoId, 0, 0, "", <<>>)
ANoBreakEnd == Ann("NoBreakEnd", NoId, 0, 0, "", <<>>)
ARedactedBegin(id) == Ann("RedactedBegin", id, 0, 0, "", <<>>)
ARedactedEnd(id) == Ann("RedactedEnd", id, 0, 0, "", <<>>)
AImage(w, h) == Ann("Image", NoId, w, h, "", <<>>)
ACustom(typ, value) == Ann("Custom", NoId, 0, 0, typ, value)
AEmphasis == Ann("Emphasis", NoId, 0, 0, "", <<>>)

\* the annotations the rich renderer may put on a tagged string
Annotations ==
  {ANoBreakBegin, ANoBreakEnd, AEmphasis, AImage(2, 1), AImage(0, 1),
   ACustom("audio", <<"v">>), ACustom("audio", <<>>), ACustom("other", <<"v">>)}
  \cup {ARedactedBegin(id) : id \in Ids} \cup {ARedactedEnd(id) : id \in Ids}

\* ts.tag: the annotation vectors of at most MaxTags annotations
Tags == UNION {[1..n -> Annotations] : n \in 0..MaxTags}

\* the tagged strings of a line
SpanInputs == {[s |-> s, tag |-> g] : s \in Texts, g \in Tags}

\* the tagged string the loop body is working on, and its next annotation
ts == Last(line)
ann == ts.tag[ai + 1]

\* `for line in lines {`: the next line is taken
RenderNextLine ==
  /\ pc = "lines"
  /\ nlines < MaxLines
  /\ nlines' = nlines + 1
  /\ line' = <<>>
  /\ is_marker' = FALSE
  /\ pc' = "spans"
  /\ UNCHANGED <<entry, fatal, cmds, redacted_stack, ai, nanns>>
  /\ UNCHANGED bvars
  /\ UNCHANGED tvars
  /\ UNCHANGED dvars
  /\ UNCHANGED mvars

\* `for ts in line.tagged_strings() {`: the next tagged string is taken
RenderNextSpan ==
  /\ pc = "spans"
  /\ Len(line) < MaxSpans
  /\ \E t \in SpanInputs :
       /\ Len(t.tag) <= MaxAnns - nanns
       /\ line' = Append(line, t)
       /\ nanns' = nanns + Len(t.tag)
  /\ is_marker' = FALSE
  /\ ai' = 0
  /\ pc' = "scan"
  /\ UNCHANGED <<entry, fatal, cmds, redacted_stack, nlines>>
  /\ UNCHANGED bvars
  /\ UNCHANGED tvars
  /\ UNCHANGED dvars
  /\ UNCHANGED mvars

\* a failed assert! or unwrap() in the first loop over ts.tag
ScanPanic(msg) ==
  /\ pc' = "panic"
  /\ fatal' = msg
  /\ UNCHANGED <<cmds, redacted_stack, is_marker, ai>>

\* the match arm is done, the loop goes to the next annotation
ScanStep ==
  /\ ai' = ai + 1
  /\ UNCHANGED <<pc, fatal>>

\* RichAnnotation::NoBreakBegin
ScanNoBreakBegin ==
  /\ pc = "scan" /\ ai < Len(ts.tag) /\ ann.k = "NoBreakBegin"
  /\ IF ts.s # <<>>
       THEN ScanPanic("assert ts.s.is_empty")
       ELSE /\ is_marker' = TRUE
            /\ cmds' = Append(cmds, CNoBreakBegin)
            /\ ScanStep
            /\ UNCHANGED redacted_stack
  /\ UNCHANGED <<entry, nlines, line, nanns>>
  /\ UNCHANGED bvars
  /\ UNCHANGED tvars
  /\ UNCHANGED dvars
  /\ UNCHANGED mvars

\* RedactedBeginCmds with the commented-out push put back
RedactedBeginCmds_Push(c, a) == Append(c, CRedactedBegin(a.id))

\* cmds after RedactedBegin: the push of Control::RedactedBegin is commented out
RedactedBeginCmds(c, a) == c

\* RichAnnotation::RedactedBegin(psk, id)
ScanRedactedBegin ==
  /\ pc = "scan" /\ ai < Len(ts.tag) /\ ann.k = "RedactedBegin"
  /\ IF ts.s # <<>>
       THEN ScanPanic("assert ts.s.is_empty")
       ELSE /\ is_marker' = TRUE
            /\ redacted_stack' = Append(redacted_stack, ann.id)
            /\ cmds' = RedactedBeginCmds(cmds, ann)
            /\ ScanStep
  /\ UNCHANGED <<entry, nlines, line, nanns>>
  /\ UNCHANGED bvars
  /\ UNCHANGED tvars
  /\ UNCHANGED dvars
  /\ UNCHANGED mvars

\* RichAnnotation::Image(src, w, h)
ScanImage ==
  /\ pc = "scan" /\ ai < Len(ts.tag) /\ ann.k = "Image"
  /\ IF ann.w * ann.h >= 1
       THEN /\ is_marker' = TRUE
            /\ cmds' = Append(cmds, CImage(ann.w, ann.h))
       ELSE UNCHANGED <<is_marker, cmds>>
  /\ ScanStep
  /\ UNCHANGED <<entry, redacted_stack, nlines, line, nanns>>
  /\ UNCHANGED bvars
  /\ UNCHANGED tvars
  /\ UNCHANGED dvars
  /\ UNCHANGED mvars

\* TopIs that accepts every id
TopIs_Any(stack, id) == TRUE

\* redacted_stack.last().unwrap() == id
TopIs(stack, id) == Last(stack) = id

\* RichAnnotation::RedactedEnd(_, id)
ScanRedactedEnd ==
  /\ pc = "scan" /\ ai < Len(ts.tag) /\ ann.k = "RedactedEnd"
  /\ IF ts.s # <<>>
       THEN ScanPanic("assert ts.s.is_empty")
       ELSE IF redacted_stack = <<>>
         THEN ScanPanic("unwrap on None")
         ELSE IF ~TopIs(redacted_stack, ann.id)
           THEN ScanPanic("redacted sections must not nest")
           ELSE /\ is_marker' = TRUE
                /\ redacted_stack' = Front(redacted_stack)
                /\ ScanStep
                /\ UNCHANGED cmds
  /\ UNCHANGED <<entry, nlines, line, nanns>>
  /\ UNCHANGED bvars
  /\ UNCHANGED tvars
  /\ UNCHANGED dvars
  /\ UNCHANGED mvars

\* RichAnnotation::NoBreakEnd
ScanNoBreakEnd ==
  /\ pc = "scan" /\ ai < Len(ts.tag) /\ ann.k = "NoBreakEnd"
  /\ IF ts.s # <<>>
       THEN ScanPanic("assert ts.s.is_empty")
       ELSE /\ is_marker' = TRUE
            /\ cmds' = Append(cmds, CNoBreakEnd)
            /\ ScanStep
            /\ UNCHANGED redacted_stack
  /\ UNCHANGED <<entry, nlines, line, nanns>>
  /\ UNCHANGED bvars
  /\ UNCHANGED tvars
  /\ UNCHANGED dvars
  /\ UNCHANGED mvars

\* RichAnnotation::Custom(typ, value)
ScanCustom ==
  /\ pc = "scan" /\ ai < Len(ts.tag) /\ ann.k = "Custom"
  /\ IF ann.typ = "audio"
       THEN IF ann.value = <<>>
         THEN ScanPanic("assert !value.is_empty")
         ELSE /\ is_marker' = TRUE
              /\ cmds' = Append(cmds, CAudio(<<ann.value[1]>>))
              /\ ScanStep
              /\ UNCHANGED redacted_stack
       ELSE /\ ScanStep
            /\ UNCHANGED <<is_marker, cmds, redacted_stack>>
  /\ UNCHANGED <<entry, nlines, line, nanns>>
  /\ UNCHANGED bvars
  /\ UNCHANGED tvars
  /\ UNCHANGED dvars
  /\ UNCHANGED mvars

\* _ => ()
ScanOther ==
  /\ pc = "scan" /\ ai < Len(ts.tag)
  /\ ann.k \notin {"NoBreakBegin", "RedactedBegin", "Image", "RedactedEnd",
                   "NoBreakEnd", "Custom"}
  /\ ScanStep
  /\ UNCHANGED <<entry, cmds, redacted_stack, is_marker, nlines, line, nanns>>
  /\ UNCHANGED bvars
  /\ UNCHANGED tvars
  /\ UNCHANGED dvars
  /\ UNCHANGED mvars

\* the tagged strings a line can have after a marker: none, or a text
SkippedInputs == {<<>>, <<[s |-> <<"a">>, tag |-> <<>>]>>}

\* if is_marker { break; }: the loop over the tagged strings of the line is
\* left, the tagged strings after the marker are not looked at
RenderBreak ==
  /\ pc = "scan" /\ ai = Len(ts.tag)
  /\ is_marker
  /\ \E rest \in SkippedInputs :
       /\ Len(line) + Len(rest) <= MaxSpans
       /\ line' = line \o rest
  /\ pc' = "eol"
  /\ UNCHANGED <<entry, fatal>>
  /\ UNCHANGED <<cmds, redacted_stack, is_marker, nlines, ai, nanns>>
  /\ UNCHANGED bvars
  /\ UNCHANGED tvars
  /\ UNCHANGED dvars
  /\ UNCHANGED mvars

\* the caller's map: (prefix, suffix) of an annotation, as default_colour_map;
\* every mutator of default_colour_map is |s| s.to_string()
MapPrefix(a) ==
  CASE a.k = "Emphasis" -> <<"Bold">>
    [] a.k = "Image" -> <<"Blue">>
    [] OTHER -> <<>>
MapSuffix(a) ==
  CASE a.k = "Emphasis" -> <<"Reset">>
    [] a.k = "Image" -> <<"FgReset">>
    [] OTHER -> <<>>
Mutator(a, s) == s

\* the second loop over ts.tag and the format! after it
RECURSIVE Start(_), Finish(_), Content(_, _)
Start(tag) ==
  IF tag = <<>> THEN <<>> ELSE Start(Front(tag)) \o MapPrefix(Last(tag))
Finish(tag) ==
  IF tag = <<>> THEN <<>> ELSE Finish(Front(tag)) \o MapSuffix(Last(tag))
Content(tag, s) ==
  IF tag = <<>> THEN <<>> ELSE Content(Front(tag), s) \o Mutator(Last(tag), s)
Styled(t) ==
  IF t.tag # <<>>
    THEN Start(t.tag) \o Content(t.tag, t.s) \o Finish(t.tag)
    ELSE Start(t.tag) \o t.s \o Finish(t.tag)

\* SpanControl with the id of the outermost open section
SpanControl_Outermost(t, stack) ==
  IF stack # <<>>
    THEN CStrRedacted(Styled(t), stack[1])
    ELSE CStr(Styled(t))

\* the Control pushed for a tagged string that is no marker
SpanControl(t, stack) ==
  IF stack # <<>>
    THEN CStrRedacted(Styled(t), Last(stack))
    ELSE CStr(Styled(t))

\* a tagged string that is no marker: Str or StrRedacted is pushed
RenderEmit ==
  /\ pc = "scan" /\ ai = Len(ts.tag)
  /\ ~is_marker
  /\ cmds' = Append(cmds, SpanControl(ts, redacted_stack))
  /\ pc' = "spans"
  /\ UNCHANGED <<entry, fatal, redacted_stack, is_marker, nlines, line, ai, nanns>>
  /\ UNCHANGED bvars
  /\ UNCHANGED tvars
  /\ UNCHANGED dvars
  /\ UNCHANGED mvars

\* the line has no further tagged string
RenderEndSpans ==
  /\ pc = "spans"
  /\ pc' = "eol"
  /\ UNCHANGED <<entry, fatal>>
  /\ UNCHANGED rvars
  /\ UNCHANGED bvars
  /\ UNCHANGED tvars
  /\ UNCHANGED dvars
  /\ UNCHANGED mvars

\* if !is_marker { cmds.push(Control::LF); }
RenderEndLine ==
  /\ pc = "eol"
  /\ cmds' = IF ~is_marker THEN Append(cmds, CLF) ELSE cmds
  /\ pc' = "lines"
  /\ UNCHANGED <<entry, fatal, redacted_stack, is_marker, nlines, line, ai, nanns>>
  /\ UNCHANGED bvars
  /\ UNCHANGED tvars
  /\ UNCHANGED dvars
  /\ UNCHANGED mvars

\* there is no further line: Ok(cmds)
RenderReturn ==
  /\ pc = "lines"
  /\ pc' = "returned"
  /\ UNCHANGED <<entry, fatal>>
  /\ UNCHANGED rvars
  /\ UNCHANGED bvars
  /\ UNCHANGED tvars
  /\ UNCHANGED dvars
  /\ UNCHANGED mvars

\* the client passes the returned cmds to try_build_block
CallBuild ==
  /\ pc = "returned"
  /\ pc' = "build"
  /\ redacted_stack' = <<>>
  /\ is_marker' = FALSE
  /\ nlines' = 0
  /\ line' = <<>>
  /\ ai' = 0
  /\ nanns' = 0
  /\ UNCHANGED <<entry, fatal, cmds>>
  /\ UNCHANGED bvars
  /\ UNCHANGED tvars
  /\ UNCHANGED dvars
  /\ UNCHANGED mvars

\* ------------------------------------------------------------------------
\* Size estimates and tables (src/src/lib.rs)
\* ------------------------------------------------------------------------

\* const MIN_WIDTH: usize
MIN_WIDTH == 5

\* usize arithmetic wraps at this modulus where overflow checks are off
\* (the width of usize is narrowed to 16 bits)
UsizeModulus == 2^16

\* Option<T>
None == <<>>
Some(v) == <<v>>

Max(a, b) == IF a >= b THEN a ELSE b

RECURSIVE SumSeq(_)
SumSeq(s) == IF s = <<>> THEN 0 ELSE Last(s) + SumSeq(Front(s))

\* struct SizeEstimate
SizeEstimate(size, min_width) == [size |-> size, min_width |-> min_width]

\* SizeEstimate::default()
SizeEstimateDefault == SizeEstimate(0, 0)

\* SizeEstimate::add
add(a, b) == SizeEstimate(a.size + b.size, Max(a.min_width, b.min_width))

\* a RenderNode whose estimate was not asked for yet: a text of len bytes or
\* a line break
RenderNode(kind, len) == [kind |-> kind, len |-> len, size_estimate |-> None]
Text(len) == RenderNode("Text", len)
Break == RenderNode("Break", 0)

\* what RenderNode::get_size_estimate returns
NodeEstimate(node) ==
  IF node.size_estimate # None
    THEN node.size_estimate[1]
    ELSE IF node.kind = "Text"
           THEN SizeEstimate(node.len, MIN_WIDTH)
           ELSE SizeEstimate(1, 1)

\* the node after RenderNode::get_size_estimate
NodeCached(node) == [node EXCEPT !.size_estimate = Some(NodeEstimate(node))]

\* struct RenderTableCell
RenderTableCell(colspan, content) ==
  [colspan |-> colspan, content |-> content, size_estimate |-> None]

RECURSIVE FoldAdd(_)
FoldAdd(ests) ==
  IF ests = <<>> THEN SizeEstimateDefault
                 ELSE add(FoldAdd(Front(ests)), Last(ests))

\* what RenderTableCell::get_size_estimate returns
CellEstimate(cell) ==
  IF cell.size_estimate # None
    THEN cell.size_estimate[1]
    ELSE FoldAdd([i \in 1..Len(cell.content) |-> NodeEstimate(cell.content[i])])

\* CellCached storing the estimate render_table_tree spread over the columns
CellCached_Spread(cell) ==
  IF cell.size_estimate # None
    THEN cell
    ELSE [cell EXCEPT
            !.content = [i \in 1..Len(cell.content) |-> NodeCached(cell.content[i])],
            !.size_estimate =
               Some(SizeEstimate(CellEstimate(cell).size \div Max(cell.colspan, 1),
                                 CellEstimate(cell).min_width \div Max(cell.colspan, 1)))]

\* the cell after RenderTableCell::get_size_estimate
CellCached(cell) ==
  IF cell.size_estimate # None
    THEN cell
    ELSE [cell EXCEPT
            !.content = [i \in 1..Len(cell.content) |-> NodeCached(cell.content[i])],
            !.size_estimate = Some(CellEstimate(cell))]

\* RenderTableRow::num_cells
num_cells(row) == SumSeq([i \in 1..Len(row) |-> row[i].colspan])

\* RenderTableRow::cell_columns: the column each cell of the row starts at
cell_columns(row) ==
  [i \in 1..Len(row) |->
     [colno |-> SumSeq([j \in 1..(i - 1) |-> row[j].colspan]), cell |-> row[i]]]

\* RenderTable::new
RenderTable(rows) ==
  [rows |-> rows,
   num_columns |-> IF rows = <<>> THEN 0
                   ELSE CHOOSE n \in {num_cells(rows[r]) : r \in 1..Len(rows)} :
                          \A r \in 1..Len(rows) : num_cells(rows[r]) <= n,
   size_estimate |-> None]

\* the cells of the table, row after row, each with its column
AllCells(t) ==
  LET RECURSIVE Cat(_)
      Cat(r) == IF r = 0 THEN <<>> ELSE Cat(r - 1) \o cell_columns(t.rows[r])
  IN  Cat(Len(t.rows))

\* the table after every cell was asked for its estimate
CellsCached(t) ==
  [t EXCEPT !.rows = [r \in 1..Len(t.rows) |->
                        [c \in 1..Len(t.rows[r]) |-> CellCached(t.rows[r][c])]]]

\* calc_size_estimate: one cell added to the columns it spans
CalcCell(sizes, colno, cell) ==
  [j \in 1..Len(sizes) |->
     IF colno < j /\ j <= colno + cell.colspan
       THEN SizeEstimate(
              sizes[j].size + CellEstimate(cell).size \div cell.colspan,
              Max(sizes[j].min_width \div cell.colspan,
                  CellEstimate(cell).min_width))
       ELSE sizes[j]]

\* render_table_tree: one cell added to the columns it spans
SpreadCell(sizes, colno, cell) ==
  [j \in 1..Len(sizes) |->
     IF colno < j /\ j <= colno + cell.colspan
       THEN add(sizes[j],
                SizeEstimate(CellEstimate(cell).size \div cell.colspan,
                             CellEstimate(cell).min_width \div cell.colspan))
       ELSE sizes[j]]

\* calc_size_estimate: sizes after the loops over the rows and their cells
CalcSizes(t) ==
  LET cells == AllCells(t)
      RECURSIVE Upto(_)
      Upto(k) == IF k = 0 THEN [j \in 1..t.num_columns |-> SizeEstimateDefault]
                 ELSE CalcCell(Upto(k - 1), cells[k].colno, cells[k].cell)
  IN  Upto(Len(cells))

\* render_table_tree: col_sizes after the loops over the rows and their cells
ColSizes(t) ==
  LET cells == AllCells(t)
      RECURSIVE Upto(_)
      Upto(k) == IF k = 0 THEN [j \in 1..t.num_columns |-> SizeEstimateDefault]
                 ELSE SpreadCell(Upto(k - 1), cells[k].colno, cells[k].cell)
  IN  Upto(Len(cells))

\* render_table_tree: col_widths before the while loop
InitialWidths(sizes, w) ==
  LET tot_size == SumSeq([j \in 1..Len(sizes) |-> sizes[j].size])
  IN  [j \in 1..Len(sizes) |->
         IF sizes[j].size = 0
           THEN 0
           ELSE Max((sizes[j].size * w) \div tot_size, sizes[j].min_width)]

\* usize::saturating_sub
saturating_sub(a, b) == IF a >= b THEN a - b ELSE 0

\* the order of the tuples max_by_key compares
KeyLE(a, b) ==
  \/ a[1] < b[1]
  \/ a[1] = b[1] /\ a[2] < b[2]
  \/ a[1] = b[1] /\ a[2] = b[2] /\ a[3] <= b[3]

\* PickColumn with colno as the last part of the key
PickColumn_ByColno(widths, sizes) ==
  LET Key(colno) == <<saturating_sub(widths[colno + 1], sizes[colno + 1].min_width),
                      widths[colno + 1],
                      colno>>
  IN  CHOOSE i \in 0..(Len(widths) - 1) :
        \A colno \in 0..(Len(widths) - 1) : KeyLE(Key(colno), Key(i))

\* PickColumn that takes the last column whatever the widths are
PickColumn_Last(widths, sizes) == Len(widths) - 1

\* the column (counted from 0) max_by_key picks in the while loop
PickColumn(widths, sizes) ==
  LET Key(colno) == <<saturating_sub(widths[colno + 1], sizes[colno + 1].min_width),
                      widths[colno + 1],
                      (UsizeModulus - 1) - colno>>
  IN  CHOOSE i \in 0..(Len(widths) - 1) :
        \A colno \in 0..(Len(widths) - 1) : KeyLE(Key(colno), Key(i))

\* TooWide that lets one unit more than the width pass
TooWide_ByOne(widths, w) == SumSeq(widths) > w + 1

\* the condition of the while loop
TooWide(widths, w) == SumSeq(widths) > w

\* CellWidth that takes the first column of the cell only
CellWidth_First(widths, colno, colspan) ==
  SumSeq(SubSeq(widths, colno + 1, colno + 1))

\* col_width: the sum of col_widths[colno..colno+colspan]
CellWidth(widths, colno, colspan) ==
  SumSeq(SubSeq(widths, colno + 1, colno + colspan))

\* rendered_cells of one row: for every sub renderer the cell that was
\* rendered in it and its width
RenderedCells(row, widths) ==
  LET cc == cell_columns(row)
      all == [i \in 1..Len(cc) |->
                [colno |-> cc[i].colno, colspan |-> cc[i].cell.colspan,
                 width |-> CellWidth(widths, cc[i].colno, cc[i].cell.colspan)]]
      some == SelectSeq(all, LAMBDA x : x.width > 1)
  IN  [i \in 1..Len(some) |-> [some[i] EXCEPT !.width = @ - 1]]

\* RenderTable::get_size_estimate, asked by the node the table is in
GetSizeEstimate ==
  /\ pc = "ready"
  /\ IF table.size_estimate # None
       THEN /\ ret' = table.size_estimate
            /\ UNCHANGED <<pc, fatal, table>>
       ELSE LET sizes == CalcSizes(table)
                size == SumSeq([j \in 1..Len(sizes) |-> sizes[j].size])
                min_width == SumSeq([j \in 1..Len(sizes) |-> sizes[j].min_width])
                               + table.num_columns
                Return(mw) ==
                  /\ table' = [CellsCached(table) EXCEPT
                                 !.size_estimate = Some(SizeEstimate(size, mw))]
                  /\ ret' = Some(SizeEstimate(size, mw))
                  /\ UNCHANGED <<pc, fatal>>
            IN  IF min_width >= 1
                  THEN Return(min_width - 1)
                  ELSE \/ Return(UsizeModulus - 1)
                       \/ /\ pc' = "panic"
                          /\ fatal' = "attempt to subtract with overflow"
                          /\ table' = CellsCached(table)
                          /\ UNCHANGED ret
  /\ UNCHANGED <<width, col_sizes, col_widths, picked, rendered, nrenders>>
  /\ UNCHANGED <<entry>>
  /\ UNCHANGED rvars
  /\ UNCHANGED bvars
  /\ UNCHANGED dvars
  /\ UNCHANGED mvars

\* render_table_tree up to the while loop, in a renderer of width w
RenderStart ==
  /\ pc = "ready" /\ nrenders < MaxRenders
  /\ \E w \in 0..MaxWidth :
       /\ IF \E r \in 1..Len(table.rows) :
               \E c \in 1..Len(table.rows[r]) : table.rows[r][c].colspan = 0
            THEN /\ pc' = "panic"
                 /\ fatal' = "attempt to divide by zero"
                 /\ UNCHANGED <<table, width, col_sizes, col_widths>>
            ELSE /\ width' = w
                 /\ table' = CellsCached(table)
                 /\ col_sizes' = ColSizes(table)
                 /\ col_widths' = InitialWidths(ColSizes(table), w)
                 /\ pc' = "reduce"
                 /\ UNCHANGED fatal
  /\ picked' = None
  /\ rendered' = <<>>
  /\ UNCHANGED <<ret, nrenders>>
  /\ UNCHANGED <<entry>>
  /\ UNCHANGED rvars
  /\ UNCHANGED bvars
  /\ UNCHANGED dvars
  /\ UNCHANGED mvars

\* one turn of the while loop
ReduceStep ==
  /\ pc = "reduce" /\ TooWide(col_widths, width)
  /\ LET i == PickColumn(col_widths, col_sizes)
     IN  /\ picked' = Some(i)
         /\ IF col_widths[i + 1] >= 1
              THEN /\ col_widths' = [col_widths EXCEPT ![i + 1] = @ - 1]
                   /\ UNCHANGED <<pc, fatal>>
              ELSE \/ /\ col_widths' = [col_widths EXCEPT ![i + 1] = UsizeModulus - 1]
                      /\ UNCHANGED <<pc, fatal>>
                   \/ /\ pc' = "panic"
                      /\ fatal' = "attempt to subtract with overflow"
                      /\ UNCHANGED col_widths
  /\ UNCHANGED <<table, ret, width, col_sizes, rendered, nrenders>>
  /\ UNCHANGED <<entry>>
  /\ UNCHANGED rvars
  /\ UNCHANGED bvars
  /\ UNCHANGED dvars
  /\ UNCHANGED mvars

\* the while loop is left
ReduceDone ==
  /\ pc = "reduce" /\ ~TooWide(col_widths, width)
  /\ pc' = "reduced"
  /\ UNCHANGED <<entry, fatal>>
  /\ UNCHANGED tvars
  /\ UNCHANGED dvars
  /\ UNCHANGED mvars
  /\ UNCHANGED rvars
  /\ UNCHANGED bvars

\* the last column gets the character cell of the border that is not drawn
Fudge ==
  /\ pc = "reduced"
  /\ col_widths' = IF col_widths # <<>>
                     THEN [col_widths EXCEPT ![Len(col_widths)] = @ + 1]
                     ELSE col_widths
  /\ pc' = "rows"
  /\ UNCHANGED <<table, ret, width, col_sizes, picked, rendered, nrenders>>
  /\ UNCHANGED <<entry, fatal>>
  /\ UNCHANGED rvars
  /\ UNCHANGED bvars
  /\ UNCHANGED dvars
  /\ UNCHANGED mvars

\* the loop over the rows: the cells are rendered in their sub renderers
RenderRows ==
  /\ pc = "rows"
  /\ rendered' = [r \in 1..Len(table.rows) |->
                    RenderedCells(table.rows[r], col_widths)]
  /\ nrenders' = nrenders + 1
  /\ pc' = "ready"
  /\ UNCHANGED <<table, ret, width, col_sizes, col_widths, picked>>
  /\ UNCHANGED <<entry, fatal>>
  /\ UNCHANGED rvars
  /\ UNCHANGED bvars
  /\ UNCHANGED dvars
  /\ UNCHANGED mvars

\* the contents of a cell
ContentInputs == {<<>>, <<Break>>, <<Text(3)>>}

CellInputs ==
  {RenderTableCell(colspan, content) :
     colspan \in 0..MaxColspan, content \in ContentInputs}

RowInputs == UNION {[1..n -> CellInputs] : n \in 0..MaxCells}

\* the tables tbody_to_render_tree builds: at least one row
TableInputs ==
  {RenderTable(rows) : rows \in UNION {[1..n -> RowInputs] : n \in 1..MaxRows}}

\* no table is rendered
TableIdle ==
  /\ table = RenderTable(<<>>)
  /\ ret = None
  /\ width = 0
  /\ col_sizes = <<>>
  /\ col_widths = <<>>
  /\ picked = None
  /\ rendered = <<>>
  /\ nrenders = 0

\* no element is converted and no tree is walked
DomIdle ==
  /\ handle = None
  /\ td_cell = None
  /\ builders = <<>>

\* from_read is not called
DocIdle ==
  /\ document = None
  /\ render_tree = None
  /\ output = <<>>

\* no document is rendered and no blocks are built
PipelineIdle ==
  /\ fatal = ""
  /\ controls = <<>>
  /\ blocks = <<>>
  /\ block = PageBlockDefault
  /\ no_break = FALSE
  /\ cmds = <<>>
  /\ redacted_stack = <<>>
  /\ is_marker = FALSE
  /\ nlines = 0
  /\ line = <<>>
  /\ ai = 0
  /\ nanns = 0

InitTable ==
  /\ entry = "render_table_tree"
  /\ pc = "ready"
  /\ PipelineIdle
  /\ table \in TableInputs
  /\ ret = None
  /\ width = 0
  /\ col_sizes = <<>>
  /\ col_widths = <<>>
  /\ picked = None
  /\ rendered = <<>>
  /\ nrenders = 0
  /\ DomIdle
  /\ DocIdle

NextTable ==
  \/ GetSizeEstimate
  \/ RenderStart
  \/ ReduceStep
  \/ ReduceDone
  \/ Fudge
  \/ RenderRows

SpecTable == InitTable /\ [][NextTable]_vars

\* render_table_tree alone, on a table whose estimate nothing asks for
NextLayout ==
  \/ RenderStart
  \/ ReduceStep
  \/ ReduceDone
  \/ Fudge
  \/ RenderRows

\* render_table_tree runs on: a turn of the while loop that can be taken is
\* taken, and the loop is left when its condition is false
SpecLayout ==
  /\ InitTable /\ [][NextLayout]_vars
  /\ WF_vars(ReduceStep)
  /\ WF_vars(ReduceDone)

\* ------------------------------------------------------------------------
\* td_to_render_tree (src/src/lib.rs)
\* ------------------------------------------------------------------------

\* the characters of the value of a colspan attribute
Chars == {"0", "2", "-", "x"}

\* the td elements: without a colspan attribute, or with one of value v
HandleInputs ==
  {None} \cup {Some(v) : v \in UNION {[1..n -> Chars] : n \in 0..MaxAttrLen}}

IsDigit(c) == c \in {"0", "2"}
Digit(c) == IF c = "2" THEN 2 ELSE 0

RECURSIVE DigitsValue(_)
DigitsValue(ds) ==
  IF ds = <<>> THEN 0 ELSE 10 * DigitsValue(Front(ds)) + Digit(Last(ds))

\* v.parse::<usize>(): Some(n) for Ok(n), None for Err
parse(v) ==
  IF v # <<>> /\ \A i \in 1..Len(v) : IsDigit(v[i])
    THEN Some(DigitsValue(v))
    ELSE None

\* Result::unwrap_or
unwrap_or(r, d) == IF r = None THEN d ELSE r[1]

\* the colspan td_to_render_tree gives the cell of the element
Colspan(h) == IF h = None THEN 1 ELSE unwrap_or(parse(h[1]), 1)

TdToRenderTree ==
  /\ pc = "td"
  /\ \E children \in ContentInputs :
       td_cell' = Some(RenderTableCell(Colspan(handle), children))
  /\ pc' = "tbody"
  /\ UNCHANGED <<entry, fatal, handle, builders>>
  /\ UNCHANGED tvars
  /\ UNCHANGED rvars
  /\ UNCHANGED bvars
  /\ UNCHANGED mvars

\* tbody_to_render_tree on a table of one row of this one cell
TbodyToRenderTree ==
  /\ pc = "tbody"
  /\ table' = RenderTable(<< <<td_cell[1]>> >>)
  /\ pc' = "ready"
  /\ UNCHANGED <<ret, width, col_sizes, col_widths, picked, rendered, nrenders>>
  /\ UNCHANGED <<entry, fatal>>
  /\ UNCHANGED dvars
  /\ UNCHANGED mvars
  /\ UNCHANGED rvars
  /\ UNCHANGED bvars

InitColspan ==
  /\ entry = "td_to_render_tree"
  /\ pc = "td"
  /\ PipelineIdle
  /\ TableIdle
  /\ handle \in HandleInputs
  /\ td_cell = None
  /\ builders = <<>>
  /\ DocIdle

NextColspan ==
  \/ TdToRenderTree
  \/ TbodyToRenderTree
  \/ NextTable

SpecColspan == InitColspan /\ [][NextColspan]_vars

\* ------------------------------------------------------------------------
\* render_tree_to_string: block quotes and lists (src/src/lib.rs)
\* ------------------------------------------------------------------------

\* items.len() of the ordered lists
ItemCounts == {1, 10, 100}

\* format!("{}", n).len()
RECURSIVE DecimalLen(_)
DecimalLen(n) == IF n < 10 THEN 1 ELSE 1 + DecimalLen(n \div 10)

\* a renderer of the walk: the region it was made for, the width of the
\* prefix append_subrender puts before its lines, and its width
Builder(kind, prefix_width, w) ==
  [kind |-> kind, prefix_width |-> prefix_width, width |-> w]

\* a - b in usize where overflow checks are off
wrapping_sub(a, b) == ((a + UsizeModulus) - b) % UsizeModulus

\* builder.new_sub_renderer(builder.width() - prefix_width): the renderers of
\* the walk once the children are walked in the new one
new_sub_renderer(kind, prefix_width) ==
  Append(builders,
         Builder(kind, prefix_width,
                 wrapping_sub(Last(builders).width, prefix_width)))

\* builder.width() - prefix_width is less than 0
Underflows(prefix_width) == Last(builders).width < prefix_width

\* BlockQuote(children)
WalkBlockQuote ==
  /\ pc = "walk" /\ Len(builders) <= MaxDepth
  /\ \/ /\ builders' = new_sub_renderer("BlockQuote", 2)
        /\ UNCHANGED <<pc, fatal>>
     \/ /\ Underflows(2)
        /\ pc' = "panic"
        /\ fatal' = "attempt to subtract with overflow"
        /\ UNCHANGED builders
  /\ UNCHANGED <<entry, handle, td_cell>>
  /\ UNCHANGED tvars
  /\ UNCHANGED rvars
  /\ UNCHANGED bvars
  /\ UNCHANGED mvars

\* Ul(items): one item
WalkUl ==
  /\ pc = "walk" /\ Len(builders) <= MaxDepth
  /\ \/ /\ builders' = new_sub_renderer("Ul", 2)
        /\ UNCHANGED <<pc, fatal>>
     \/ /\ Underflows(2)
        /\ pc' = "panic"
        /\ fatal' = "attempt to subtract with overflow"
        /\ UNCHANGED builders
  /\ UNCHANGED <<entry, handle, td_cell>>
  /\ UNCHANGED tvars
  /\ UNCHANGED rvars
  /\ UNCHANGED bvars
  /\ UNCHANGED mvars

\* Ol(items): one item of a list of num_items
WalkOl ==
  /\ pc = "walk" /\ Len(builders) <= MaxDepth
  /\ \E num_items \in ItemCounts :
       LET prefix_width == DecimalLen(num_items) + 2
       IN  \/ /\ builders' = new_sub_renderer("Ol", prefix_width)
              /\ UNCHANGED <<pc, fatal>>
           \/ /\ Underflows(prefix_width)
              /\ pc' = "panic"
              /\ fatal' = "attempt to subtract with overflow"
              /\ UNCHANGED builders
  /\ UNCHANGED <<entry, handle, td_cell>>
  /\ UNCHANGED tvars
  /\ UNCHANGED rvars
  /\ UNCHANGED bvars
  /\ UNCHANGED mvars

\* builder.append_subrender(sub_builder, prefixes): the region is done
AppendSubrender ==
  /\ pc = "walk" /\ Len(builders) > 1
  /\ builders' = Front(builders)
  /\ UNCHANGED <<entry, pc, fatal, handle, td_cell>>
  /\ UNCHANGED tvars
  /\ UNCHANGED rvars
  /\ UNCHANGED bvars
  /\ UNCHANGED mvars

InitWalk ==
  /\ entry = "render_tree_to_string"
  /\ pc = "walk"
  /\ PipelineIdle
  /\ TableIdle
  /\ handle = None
  /\ td_cell = None
  /\ \E w \in 0..MaxWidth : builders = <<Builder("root", 0, w)>>
  /\ DocIdle

NextWalk ==
  \/ WalkBlockQuote
  \/ WalkUl
  \/ WalkOl
  \/ AppendSubrender

SpecWalk == InitWalk /\ [][NextWalk]_vars

\* ------------------------------------------------------------------------
\* from_read: dom_to_render_tree, render_tree_to_string (src/src/lib.rs)
\* ------------------------------------------------------------------------

\* the nodes of the parsed document (rcdom): a text of len bytes, an element
\* of a name, the document
DomNode(kind, name, len, children) ==
  [kind |-> kind, name |-> name, len |-> len, children |-> children]
DomText(len) == DomNode("Text", "", len, <<>>)
DomElement(name, children) == DomNode("Element", name, 0, children)
DomDocument(children) == DomNode("Document", "", 0, children)

\* the names of the elements: p, ul and li, and foo, which no match arm names
Names == {"p", "ul", "li", "foo"}

\* RenderNode::new(info) of a node with children
RenderTreeNode(kind, len, children) ==
  [kind |-> kind, len |-> len, children |-> children, size_estimate |-> None]

RECURSIVE dom_to_render_tree(_)
RECURSIVE children_to_render_nodes(_)
RECURSIVE list_children_to_render_nodes(_)

\* flat_map over the children: the Some results in the order of the children
children_to_render_nodes(h) ==
  LET RECURSIVE Upto(_)
      Upto(k) == IF k = 0 THEN <<>>
                 ELSE Upto(k - 1) \o dom_to_render_tree(h.children[k])
  IN  Upto(Len(h.children))

\* a Block for every li child, nothing for any other child
list_children_to_render_nodes(h) ==
  LET RECURSIVE Upto(_)
      Upto(k) ==
        IF k = 0 THEN <<>>
        ELSE Upto(k - 1) \o
               (IF h.children[k].kind = "Element" /\ h.children[k].name = "li"
                  THEN <<RenderTreeNode("Block", 0,
                                        children_to_render_nodes(h.children[k]))>>
                  ELSE <<>>)
  IN  Upto(Len(h.children))

\* dom_to_render_tree: Some(node) or None
dom_to_render_tree(h) ==
  CASE h.kind = "Document" ->
         Some(RenderTreeNode("Container", 0, children_to_render_nodes(h)))
    [] h.kind = "Text" -> Some(RenderTreeNode("Text", h.len, <<>>))
    [] h.kind = "Element" /\ h.name = "p" ->
         Some(RenderTreeNode("Block", 0, children_to_render_nodes(h)))
    [] h.kind = "Element" /\ h.name = "ul" ->
         Some(RenderTreeNode("Ul", 0, list_children_to_render_nodes(h)))
    [] OTHER ->
         Some(RenderTreeNode("Container", 0, children_to_render_nodes(h)))

\* a call render_tree_to_string makes on the builder
Call(name, len) == [call |-> name, len |-> len]

\* the calls render_tree_to_string makes on the builder for a tree, those on
\* a sub renderer between its new_sub_renderer and its append_subrender
RECURSIVE render_tree_to_string(_)
render_tree_to_string(tree) ==
  LET RECURSIVE Upto(_)
      Upto(k) ==
        IF k = 0 THEN <<>>
        ELSE Upto(k - 1) \o
               (IF tree.kind = "Ul"
                  THEN <<Call("new_sub_renderer", 0)>>
                         \o render_tree_to_string(tree.children[k])
                         \o <<Call("append_subrender", 0)>>
                  ELSE render_tree_to_string(tree.children[k]))
      children == Upto(Len(tree.children))
  IN  CASE tree.kind = "Text" -> <<Call("add_inline_text", tree.len)>>
        [] tree.kind = "Container" -> children
        [] tree.kind = "Block" ->
             <<Call("start_block", 0)>> \o children \o <<Call("end_block", 0)>>
        [] tree.kind = "Ul" -> <<Call("start_block", 0)>> \o children

\* the nodes of at most d levels of elements
RECURSIVE DomInputs(_)
DomInputs(d) ==
  {DomText(1)} \cup
    {DomElement(name, children) :
       name \in Names,
       children \in IF d = 0 THEN {<<>>}
                    ELSE UNION {[1..n -> DomInputs(d - 1)] : n \in 0..MaxChildren}}

\* let mut render_tree = dom_to_render_tree(dom.document, ..).unwrap()
DomToRenderTree ==
  /\ pc = "dom"
  /\ render_tree' = dom_to_render_tree(document[1])
  /\ pc' = "tree"
  /\ UNCHANGED <<entry, fatal, document, output>>
  /\ UNCHANGED dvars
  /\ UNCHANGED tvars
  /\ UNCHANGED rvars
  /\ UNCHANGED bvars

\* render_tree_to_string(&mut builder, &mut render_tree, ..)
RenderTreeToString ==
  /\ pc = "tree"
  /\ output' = render_tree_to_string(render_tree[1])
  /\ pc' = "done"
  /\ UNCHANGED <<entry, fatal, document, render_tree>>
  /\ UNCHANGED dvars
  /\ UNCHANGED tvars
  /\ UNCHANGED rvars
  /\ UNCHANGED bvars

InitDom ==
  /\ entry = "from_read"
  /\ pc = "dom"
  /\ PipelineIdle
  /\ TableIdle
  /\ DomIdle
  /\ \E children \in UNION {[1..n -> DomInputs(MaxDomDepth)] : n \in 0..MaxChildren} :
       document = Some(DomDocument(children))
  /\ render_tree = None
  /\ output = <<>>

NextDom ==
  \/ DomToRenderTree
  \/ RenderTreeToString

SpecDom == InitDom /\ [][NextDom]_vars

Init ==
  /\ entry \in {"try_build_block", "just_render"}
  /\ pc = IF entry = "try_build_block" THEN "build" ELSE "lines"
  /\ fatal = ""
  /\ controls = <<>>
  /\ blocks = <<>>
  /\ block = PageBlockDefault
  /\ no_break = FALSE
  /\ cmds = <<>>
  /\ redacted_stack = <<>>
  /\ is_marker = FALSE
  /\ nlines = 0
  /\ line = <<>>
  /\ ai = 0
  /\ nanns = 0
  /\ TableIdle
  /\ DomIdle
  /\ DocIdle

\* the client calls try_build_block on a vector of its own
InitBlock == Init /\ entry = "try_build_block"

NextBlock ==
  \/ BuildUnreachable
  \/ BuildLF
  \/ BuildNoBreakBegin
  \/ BuildNoBreakEnd
  \/ BuildImage
  \/ BuildOther
  \/ BuildReturn

SpecBlock == InitBlock /\ [][NextBlock]_vars

Next ==
  \/ NextBlock
  \/ RenderNextLine
  \/ RenderNextSpan
  \/ ScanNoBreakBegin
  \/ ScanRedactedBegin
  \/ ScanImage
  \/ ScanRedactedEnd
  \/ ScanNoBreakEnd
  \/ ScanCustom
  \/ ScanOther
  \/ RenderBreak
  \/ RenderEmit
  \/ RenderEndSpans
  \/ RenderEndLine
  \/ RenderReturn
  \/ CallBuild

Spec == Init /\ [][Next]_vars

\* ------------------------------------------------------------------------
\* Properties of try_build_block
\* ------------------------------------------------------------------------

\* the loop body ran on a Control of kind k in this step
TookControl(k) ==
  /\ pc = "build"
  /\ Len(controls') = Len(controls) + 1
  /\ controls'[Len(controls')].k = k

\* how many Controls of kind k the sequence cs holds
CountKind(cs, k) == Cardinality({i \in 1..Len(cs) : cs[i].k = k})

\* the index of the last NoBreakBegin of cs
LastBegin(cs) ==
  CHOOSE i \in 1..Len(cs) :
    /\ cs[i].k = "NoBreakBegin"
    /\ \A j \in (i + 1)..Len(cs) : cs[j].k # "NoBreakBegin"

\* C1: when a NoBreakEnd has been processed without a fatal error, the block
\* it pushed holds every operation between the matching NoBreakBegin and it,
\* whatever their kinds: the section is one single PageBlock.
C1_SectionInOneBlock ==
  (pc # "panic" /\ controls # <<>> /\ Last(controls).k = "NoBreakEnd")
    => Last(blocks).inner =
         SubSeq(controls, LastBegin(controls) + 1, Len(controls) - 1)

\* C2: a LF is appended to the current block and raises its height by 1; with
\* the no-break flag clear the block is pushed and a fresh empty block is
\* started, with the flag set the block stays open.
C2_LineFeed ==
  [][TookControl("LF") =>
       LET b == [inner |-> Append(block.inner, CLF), height |-> block.height + 1]
       IN /\ pc' = "build"
          /\ no_break' = no_break
          /\ IF no_break
               THEN block' = b /\ blocks' = blocks
               ELSE /\ blocks' = Append(blocks, b)
                    /\ block' = [inner |-> <<>>, height |-> 0]]_vars

\* a LF was kept in the open block of a no-break section after an earlier LF
\* outside the section had flushed its block
C2_Witness ==
  /\ pc = "build"
  /\ controls = <<CLF, CNoBreakBegin, CStr(<<"a">>), CLF>>
  /\ no_break
  /\ blocks = <<[inner |-> <<CLF>>, height |-> 1]>>
  /\ block = [inner |-> <<CStr(<<"a">>), CLF>>, height |-> 1]

\* C3: a NoBreakBegin met with the flag set is fatal; otherwise it sets the
\* flag and pushes the pending block only if it is non-empty, and the block
\* current after the marker is empty: what came before is in other blocks.
C3_NoBreakBegin ==
  [][TookControl("NoBreakBegin") =>
       IF no_break
         THEN /\ pc' = "panic"
              /\ fatal' = "Section nested"
              /\ blocks' = blocks
         ELSE /\ pc' = "build"
              /\ no_break'
              /\ blocks' = IF block.inner # <<>> THEN Append(blocks, block) ELSE blocks
              /\ block' = [inner |-> <<>>, height |-> 0]]_vars

\* a NoBreakBegin pushed a non-empty pending block
C3_Witness ==
  /\ pc = "build"
  /\ controls = <<CStr(<<"a">>), CNoBreakBegin>>
  /\ no_break
  /\ blocks = <<[inner |-> <<CStr(<<"a">>)>>, height |-> 0]>>
  /\ block.inner = <<>>

\* C4: a NoBreakEnd met with the flag clear is fatal; otherwise it clears the
\* flag and pushes the current block, empty or not.
C4_NoBreakEnd ==
  [][TookControl("NoBreakEnd") =>
       IF ~no_break
         THEN /\ pc' = "panic"
              /\ fatal' = "Section mismatched"
              /\ blocks' = blocks
         ELSE /\ pc' = "build"
              /\ ~no_break'
              /\ blocks' = Append(blocks, block)
              /\ block' = [inner |-> <<>>, height |-> 0]]_vars

\* a NoBreakEnd pushed a block without any operation
C4_Witness ==
  /\ pc = "build"
  /\ controls = <<CNoBreakBegin, CNoBreakEnd>>
  /\ ~no_break
  /\ blocks = <<[inner |-> <<>>, height |-> 0]>>

\* C5: an Image(src, w, h) pushes the pending block if it holds an operation
\* and then a block holding the Image alone, of height h; the current block
\* is empty afterwards; the no-break flag changes nothing of this.
C5_Image ==
  [][TookControl("Image") =>
       LET c == controls'[Len(controls')]
       IN /\ pc' = "build"
          /\ no_break' = no_break
          /\ blocks' = (IF block.inner # <<>> THEN Append(blocks, block) ELSE blocks)
                         \o <<[inner |-> <<c>>, height |-> c.h]>>
          /\ block' = [inner |-> <<>>, height |-> 0]]_vars

\* an Image with w # h met a pending block inside a no-break section
C5_Witness ==
  /\ pc = "build"
  /\ controls = <<CNoBreakBegin, CStr(<<"a">>), CLF, CImage(2, 1)>>
  /\ no_break
  /\ blocks = <<[inner |-> <<CStr(<<"a">>), CLF>>, height |-> 1],
                [inner |-> <<CImage(2, 1)>>, height |-> 1]>>
  /\ block = [inner |-> <<>>, height |-> 0]

\* C6: a stream that try_build_block processes to its end without a fatal
\* error holds as many NoBreakBegin as NoBreakEnd.
C6_BalancedWhenAccepted ==
  pc = "done" =>
    CountKind(controls, "NoBreakBegin") = CountKind(controls, "NoBreakEnd")

\* ------------------------------------------------------------------------
\* Properties of just_render / custom_render
\* ------------------------------------------------------------------------

\* the annotation makes its tagged string a marker
IsMarkerAnn(a) ==
  \/ a.k \in {"NoBreakBegin", "NoBreakEnd", "RedactedBegin", "RedactedEnd"}
  \/ a.k = "Image" /\ a.w * a.h >= 1
  \/ a.k = "Custom" /\ a.typ = "audio"

\* the first loop is about to match on an annotation of kind k
Scanning(k) == pc = "scan" /\ ai < Len(ts.tag) /\ ann.k = k

\* C7: cmds never holds a Default, RedactedBegin or RedactedEnd, so that
\* try_build_block run on the cmds just_render returned never reaches its
\* unreachable!() arms.
C7_NoInternalControls ==
  /\ \A i \in 1..Len(cmds) :
       cmds[i].k \notin {"Default", "RedactedBegin", "RedactedEnd"}
  /\ entry = "just_render" => fatal # "unreachable"

\* try_build_block went through the cmds of lines that opened a redacted
\* section and held text inside it
C7_Witness ==
  /\ entry = "just_render"
  /\ pc = "done"
  /\ controls = <<CStrRedacted(<<"a">>, "A"), CLF>>
  /\ Len(blocks) = 1

\* C8: a tagged string that is no marker is pushed as Str when redacted_stack
\* is empty and as StrRedacted with the id on top of the stack otherwise; the
\* stack is not touched between the tagged strings and the lines.
C8_RedactedById ==
  [][/\ (pc = "scan" /\ ai = Len(ts.tag) /\ ~is_marker) =>
          /\ Len(cmds') = Len(cmds) + 1
          /\ SubSeq(cmds', 1, Len(cmds)) = cmds
          /\ LET c == cmds'[Len(cmds')]
             IN IF redacted_stack = <<>>
                  THEN c.k = "Str" /\ c.id = NoId
                  ELSE /\ c.k = "StrRedacted"
                       /\ c.id = redacted_stack[Len(redacted_stack)]
     /\ pc \in {"lines", "spans", "eol"} => redacted_stack' = redacted_stack]_vars

\* on the second line, text was pushed with the id of the inner of the two
\* sections the first line opened
C8_Witness ==
  /\ pc = "spans"
  /\ nlines = 2
  /\ redacted_stack = <<"A", "B">>
  /\ cmds # <<>>
  /\ Last(cmds) = CStrRedacted(<<"a">>, "B")

C10_MarkerTextIsFatal ==
  (pc = "scan" /\ ai = Len(ts.tag) /\ \E i \in 1..Len(ts.tag) : IsMarkerAnn(ts.tag[i]))
    => ts.s = <<>>

\* C11: when a line is done, cmds ends with the LF of that line unless the
\* line consisted solely of one marker tagged string; a line of a text and a
\* marker tagged string still ends with a LF.
C11_LineFeedUnlessSoleMarker ==
  (pc = "lines" /\ nlines > 0 /\ ~(Len(line) = 1 /\ is_marker))
    => (cmds # <<>> /\ Last(cmds).k = "LF")

\* the text of a tagged string after the transforms of its annotations were
\* applied one after the other, each on the result of the one before
RECURSIVE Chained(_, _)
Chained(tag, s) ==
  IF tag = <<>> THEN s ELSE Mutator(Last(tag), Chained(Front(tag), s))

\* C12: the text pushed for a tagged string that is no marker is the prefixes
\* of its annotations, its text with the transforms chained on it (identity
\* transforms leave the text once), and the suffixes in the same order.
C12_PrefixChainSuffix ==
  (pc = "spans" /\ line # <<>> /\ ~is_marker)
    => Last(cmds).s = Start(ts.tag) \o Chained(ts.tag, ts.s) \o Finish(ts.tag)

\* ------------------------------------------------------------------------
\* Properties of the table layout
\* ------------------------------------------------------------------------

\* some column of the table has an estimated size that is not 0
SomeSize == \E j \in 1..Len(col_sizes) : col_sizes[j].size # 0

\* C13 as stated: right after the while loop of render_table_tree the column
\* widths of a table with a column of nonzero size sum to the width.
C13_SumIsWidth ==
  (pc = "reduced" /\ SomeSize) => SumSeq(col_widths) = width

\* C13, amended: right after the while loop the column widths sum to at most
\* the width, and to the width exactly when the widths before the loop summed
\* to the width or more.
C13_SumAtMostWidth ==
  pc = "reduced" =>
    /\ SumSeq(col_widths) <= width
    /\ SumSeq(InitialWidths(col_sizes, width)) >= width
         => SumSeq(col_widths) = width

\* the loop took widths away and left them at the width
C13_Witness ==
  /\ pc = "reduced" /\ SomeSize /\ picked # None
  /\ SumSeq(col_widths) = width

\* the pair of column colno the loop maximises
Pair(colno) ==
  <<saturating_sub(col_widths[colno + 1], col_sizes[colno + 1].min_width),
    col_widths[colno + 1]>>

\* no column has a larger pair than column colno
Maximal(colno) ==
  \A j \in 0..(Len(col_widths) - 1) :
    \/ Pair(j)[1] < Pair(colno)[1]
    \/ Pair(j)[1] = Pair(colno)[1] /\ Pair(j)[2] <= Pair(colno)[2]

\* this step is a turn of the while loop that decrements column colno
Decrements(colno) ==
  /\ pc = "reduce" /\ pc' = "reduce"
  /\ col_widths'[colno + 1] = col_widths[colno + 1] - 1

\* C14 as stated: the column a turn of the while loop decrements has the
\* maximal pair and is the one of the highest index among those that have it.
C14_HighestIndex ==
  [][\A i \in 0..(Len(col_widths) - 1) :
       Decrements(i) =>
         /\ Maximal(i)
         /\ \A j \in 0..(Len(col_widths) - 1) : Maximal(j) => j <= i]_vars

\* C14, amended: the column a turn of the while loop decrements has the
\* maximal pair and is the one of the lowest index (the leftmost) among those
\* that have it.
C14_LowestIndex ==
  [][\A i \in 0..(Len(col_widths) - 1) :
       Decrements(i) =>
         /\ Maximal(i)
         /\ \A j \in 0..(Len(col_widths) - 1) : Maximal(j) => j >= i]_vars

\* two columns had the same pair and the left one was decremented
C14_Witness ==
  /\ pc = "reduce" /\ Len(col_widths) = 2 /\ picked = Some(0)
  /\ col_sizes[1].min_width = col_sizes[2].min_width
  /\ col_widths[1] + 1 = col_widths[2]

\* C15: every cell td_to_render_tree builds has a colspan of 1 or more, so
\* that the layout of its table does not divide by a colspan of 0.
C15_ColspanAtLeastOne ==
  /\ td_cell # None => td_cell[1].colspan >= 1
  /\ fatal # "attempt to divide by zero"

\* C17: no line is wider than the requested width: the renderer of every
\* region of the walk is, with the prefix put before its lines, at most as
\* wide as the renderer of the region around it.
C17_NoLineWiderThanWidth ==
  \A i \in 2..Len(builders) :
    builders[i].width + builders[i].prefix_width <= builders[i - 1].width

\* a render of the table is finished: col_widths are the final widths
Rendered == pc = "ready" /\ nrenders >= 1

\* the sum of the final widths of the k columns from column c on
SpanSum(c, k) == SumSeq([j \in 1..k |-> col_widths[c + j]])

\* the sub renderers of row r made for the cell that starts at column c
SubsAt(r, c) ==
  {rendered[r][n] : n \in {m \in 1..Len(rendered[r]) : rendered[r][m].colno = c}}

\* C16 as stated: every cell of colspan k that starts at column c is laid out
\* in a sub renderer of the width of its k columns less 1.
C16_SpanLaidOut ==
  Rendered =>
    \A r \in 1..Len(table.rows) :
      \A i \in 1..Len(table.rows[r]) :
        LET cc == cell_columns(table.rows[r])[i]
        IN  \E sub \in SubsAt(r, cc.colno) :
              sub.width = SpanSum(cc.colno, cc.cell.colspan) - 1

\* C16, amended: a cell of colspan k that starts at column c is laid out in a
\* sub renderer of the width of its k columns less 1 when these columns are
\* more than 1 wide together, and in none otherwise; a cell of colspan 2 is as
\* wide as the two single cells another row has in its columns and one
\* separator.
C16_SpanLaidOutIfWide ==
  Rendered =>
    \A r \in 1..Len(table.rows) :
      \A i \in 1..Len(table.rows[r]) :
        LET cc == cell_columns(table.rows[r])[i]
            c == cc.colno
            sum == SpanSum(c, cc.cell.colspan)
        IN  /\ sum > 1 =>
                 /\ Cardinality(SubsAt(r, c)) = 1
                 /\ \A sub \in SubsAt(r, c) : sub.width = sum - 1
            /\ sum <= 1 => SubsAt(r, c) = {}
            /\ cc.cell.colspan = 2 =>
                 \A q \in 1..Len(table.rows) :
                   \A s1 \in SubsAt(q, c) : \A s2 \in SubsAt(q, c + 1) :
                     (s1.colspan = 1 /\ s2.colspan = 1) =>
                       \A sub \in SubsAt(r, c) :
                         sub.width = s1.width + s2.width + 1

\* a cell of colspan 2 was laid out over two single cells of another row
C16_Witness ==
  /\ Rendered
  /\ \E r, q \in 1..Len(table.rows) :
       \E sub \in SubsAt(r, 0) : \E s1 \in SubsAt(q, 0) : \E s2 \in SubsAt(q, 1) :
         /\ sub.colspan = 2 /\ s1.colspan = 1 /\ s2.colspan = 1
         /\ s1.width # s2.width

\* the sub renderers of a row and the separators between them are at most as
\* wide as the renderer of the table
RowFits ==
  Rendered =>
    \A r \in 1..Len(rendered) :
      rendered[r] # <<>> =>
        SumSeq([n \in 1..Len(rendered[r]) |-> rendered[r][n].width])
          + (Len(rendered[r]) - 1) <= width

\* C18: the estimate calc_size_estimate computes for a column is the one
\* render_table_tree computes for it: the sizes of the cells over the column
\* divided by their colspans summed up, and the largest of their min_widths
\* divided by their colspans.
C18_CalcAgreesWithLayout ==
  (pc = "reduce" /\ table.size_estimate # None) => CalcSizes(table) = col_sizes

\* C19: the min_width of the estimate of a table is the sum of the min_widths
\* of its columns plus the number of columns less 1, computed with no
\* underflow, also for a table of no column.
C19_TotalMinWidth ==
  /\ fatal # "attempt to subtract with overflow"
  /\ table.size_estimate # None =>
       table.size_estimate[1].min_width =
         SumSeq([j \in 1..table.num_columns |-> CalcSizes(table)[j].min_width])
           + (table.num_columns - 1)

\* the tree of the table as the tree builder builds it: no estimate cached
Fresh(t) ==
  RenderTable([r \in 1..Len(t.rows) |->
                 [c \in 1..Len(t.rows[r]) |->
                    RenderTableCell(
                      t.rows[r][c].colspan,
                      [i \in 1..Len(t.rows[r][c].content) |->
                         RenderNode(t.rows[r][c].content[i].kind,
                                    t.rows[r][c].content[i].len)])]])

\* the widths the while loop leaves
RECURSIVE Reduced(_, _, _)
Reduced(widths, sizes, w) ==
  IF SumSeq(widths) > w
    THEN Reduced([widths EXCEPT ![PickColumn(widths, sizes) + 1] = @ - 1], sizes, w)
    ELSE widths

\* the final column widths of a render of the freshly built tree at width w
FreshWidths(t, w) ==
  LET sizes == ColSizes(Fresh(t))
      ws == Reduced(InitialWidths(sizes, w), sizes, w)
  IN  IF ws # <<>> THEN [ws EXCEPT ![Len(ws)] = @ + 1] ELSE ws

\* C20: an estimate that is cached (of a node, a cell or the table) is never
\* changed and is what a later request returns; the column widths and the sub
\* renderers of every render, the first or a later one, are those of a render
\* of the freshly built tree at the same width.
C20_CachedAndRecomputed ==
  [][/\ table.size_estimate # None => table'.size_estimate = table.size_estimate
     /\ \A r \in 1..Len(table.rows) : \A c \in 1..Len(table.rows[r]) :
          /\ table.rows[r][c].size_estimate # None =>
               table'.rows[r][c].size_estimate = table.rows[r][c].size_estimate
          /\ \A i \in 1..Len(table.rows[r][c].content) :
               table.rows[r][c].content[i].size_estimate # None =>
                 table'.rows[r][c].content[i].size_estimate
                   = table.rows[r][c].content[i].size_estimate
     /\ ret' # ret => ret' = table'.size_estimate
     /\ (pc = "rows" /\ pc' = "ready") =>
          /\ col_widths' = FreshWidths(table', width')
          /\ rendered' = [r \in 1..Len(table'.rows) |->
                            RenderedCells(Fresh(table').rows[r],
                                          FreshWidths(table', width'))]]_vars

\* the tree was rendered a second time, with its estimates cached, and a cell
\* of colspan 2 was laid out
C20_Witness ==
  /\ pc = "ready" /\ nrenders = 2 /\ table.size_estimate # None
  /\ \E r \in 1..Len(rendered) : \E n \in 1..Len(rendered[r]) :
       rendered[r][n].colspan = 2

\* ------------------------------------------------------------------------
\* Properties of the tree builder
\* ------------------------------------------------------------------------

\* the children of a node with every foo element replaced by its children
RECURSIVE WithoutFoo(_)
WithoutFoo(children) ==
  IF children = <<>> THEN <<>>
  ELSE (IF Head(children).kind = "Element" /\ Head(children).name = "foo"
          THEN WithoutFoo(Head(children).children)
          ELSE <<[Head(children) EXCEPT !.children = WithoutFoo(@)]>>)
       \o WithoutFoo(Tail(children))

\* C21: a document is rendered as the same document with the elements of an
\* unrecognised name taken out and their children left in their place.
C21_UnrecognisedIsTransparent ==
  pc = "done" =>
    output = render_tree_to_string(
               dom_to_render_tree(DomDocument(WithoutFoo(document[1].children)))[1])

\* C22: the while loop of render_table_tree ends, with widths that sum to the
\* width or less; no turn of it decrements a column of width 0 or ends in a
\* fatal error, and the widths before the loop of a table of total size 0 are
\* computed (all 0) with no division.
C22_LoopTerminates ==
  /\ (pc = "reduce") ~> (pc = "reduced")
  /\ [](pc = "reduced" => SumSeq(col_widths) <= width)
  /\ [][pc = "reduce" =>
          /\ pc' # "panic"
          /\ \A j \in 1..Len(col_widths) :
               col_widths'[j] # col_widths[j] =>
                 col_widths[j] >= 1 /\ col_widths'[j] = col_widths[j] - 1]_vars
  /\ [][(pc = "ready" /\ pc' = "reduce" /\ ~SomeSize') =>
          \A j \in 1..Len(col_widths') : col_widths'[j] = 0]_vars

\* the loop went on below the min_width of a column because the min_widths
\* alone are more than the width
C22_Witness ==
  /\ pc = "reduced" /\ picked # None
  /\ SumSeq([j \in 1..Len(col_sizes) |-> col_sizes[j].min_width]) > width
  /\ \E j \in 1..Len(col_widths) : col_widths[j] < col_sizes[j].min_width

\* ------------------------------------------------------------------------
\* More properties of try_build_block and just_render
\* ------------------------------------------------------------------------

\* the operations of the blocks bs one after the other
RECURSIVE Ops(_)
Ops(bs) == IF bs = <<>> THEN <<>> ELSE Ops(Front(bs)) \o Last(bs).inner

\* cs without its NoBreakBegin and NoBreakEnd
WithoutSections(cs) ==
  SelectSeq(cs, LAMBDA c : c.k \notin {"NoBreakBegin", "NoBreakEnd"})

\* C23: when try_build_block returns, the operations of the returned blocks
\* in their order are the input without its NoBreakBegin and NoBreakEnd.
C23_NoOperationLost ==
  (entry = "try_build_block" /\ pc = "done") =>
    Ops(blocks) = WithoutSections(controls)

\* the height the operations of a block add up to: 1 for a LF, h for an Image
RECURSIVE HeightOf(_)
HeightOf(inner) ==
  IF inner = <<>> THEN 0
  ELSE HeightOf(Front(inner))
         + (IF Last(inner).k = "LF" THEN 1
            ELSE IF Last(inner).k = "Image" THEN Last(inner).h ELSE 0)

\* C24: the height of the current block and of every emitted block is the
\* number of its LF plus the heights of its Images (0 for a block with no
\* operation); a block emitted while no section is open has at most one LF,
\* and that LF is its last operation.
C24_HeightIsLinesAndImages ==
  /\ [](/\ block.height = HeightOf(block.inner)
        /\ \A i \in 1..Len(blocks) : blocks[i].height = HeightOf(blocks[i].inner))
  /\ [][~no_break =>
          \A i \in (Len(blocks) + 1)..Len(blocks') :
            /\ CountKind(blocks'[i].inner, "LF") <= 1
            /\ CountKind(blocks'[i].inner, "LF") = 1
                 => Last(blocks'[i].inner).k = "LF"]_vars

\* a section was closed and its block, with two LF and an Image of height 2,
\* was emitted at the Image and at the end
C24_Witness ==
  /\ controls = <<CNoBreakBegin, CLF, CImage(1, 2), CNoBreakEnd>>
  /\ Len(blocks) = 3 /\ ~no_break /\ block = PageBlockDefault
  /\ blocks[1].height = 1 /\ blocks[2].height = 2 /\ blocks[3].height = 0

\* how many Str and StrRedacted the sequence cs holds
CountStrs(cs) == CountKind(cs, "Str") + CountKind(cs, "StrRedacted")

\* the tagged string has no annotation that makes it a marker
NonMarker(t) == \A i \in 1..Len(t.tag) : ~IsMarkerAnn(t.tag[i])

\* C25: when the first line is done, cmds holds one Str or StrRedacted for
\* every tagged string of the line that is no marker, also for those after a
\* marker.
C25_NoTextDropped ==
  (pc = "lines" /\ nlines = 1) =>
    CountStrs(cmds) = Cardinality({i \in 1..Len(line) : NonMarker(line[i])})

\* C26: when just_render returns normally no redacted section is open: the
\* stack of redaction ids is empty.
C26_StackEmptyAtReturn ==
  pc = "returned" => redacted_stack = <<>>

\* C27: the width of every sub renderer of the walk is the width of the
\* renderer around it less the prefix of its region (2 for a block quote and
\* an item of an unordered list, the digits of the item count and 2 for an
\* item of an ordered list), computed with no underflow.
C27_SubWidthsNoUnderflow ==
  /\ fatal # "attempt to subtract with overflow"
  /\ \A i \in 2..Len(builders) :
       builders[i].width = builders[i - 1].width - builders[i].prefix_width

====
